---- MODULE Spec2Model ----
(***************************************************************************)
(* AudioQueue (Stella): a bounded circular queue of audio fragments that   *)
(* hands fragments from the emulation thread (producer) to the audio       *)
(* callback (consumer) by exchanging pointers under one mutex.             *)
(*                                                                         *)
(* A fragment pointer is modelled by its offset in myFragmentBuffer, in     *)
(* samples, plus the address of the buffer; NULL is 0.  Every public       *)
(* operation that takes the mutex is split                                 *)
(* into: the call, the construction of the lock_guard, the body, and the   *)
(* destruction of the lock_guard at scope exit.                            *)
(***************************************************************************)
EXTENDS Integers, Sequences, FiniteSets, TLC

\* ---- bounds of the model ------------------------------------------------
MaxCapacity == 3
MaxEnqueues == 5
MaxMisuse == 1
MaxFragmentSize == 2
\* the longest command line: MaxArgs arguments after the program name
MaxArgs == 3

\* ---- values -------------------------------------------------------------
NULL == 0
UInt16Range == 65536

Producer == "producer"
Consumer == "consumer"
Threads == {Producer, Consumer}
NoThread == "none"

VARIABLES
  capacity,                   \* myFragmentQueue.size(), fixed by the constructor
  myFragmentSize,             \* fixed by the constructor
  myIsStereo,                 \* fixed by the constructor
  myFragmentQueue,            \* [0..capacity-1 -> fragment pointer]
  mySize,
  myNextFragment,
  myFirstFragmentForEnqueue,
  myFirstFragmentForDequeue,
  myIgnoreOverflows,
  myMutex,                    \* the thread that owns the mutex, or NoThread
  pc,                         \* per thread: "idle", "lock", "body", "unlock"
  op,                         \* per thread: the operation of the call in progress
  arg,                        \* per thread: the fragment passed to that call
  ret,                        \* per thread: the value the body returns (at "unlock")
  failed,                     \* per thread: the body of its last call threw
  logCalls,                   \* myOverflowLogger.log() calls made by the body that just ran
  held,                       \* per thread: the fragment the thread owns outside the queue
  protocolOk,                 \* every call so far passed the fragment its caller held
  misuse,                     \* number of calls that did not
  enqLog,                     \* history: stamps of the filled fragments enqueued
  \* history kept while protocolOk holds (and blank afterwards):
  deqLog,                     \* stamps of the fragments returned by dequeue
  dropped,                    \* stamps overwritten by an overflowing enqueue
  stamp,                      \* stamp of the content of each fragment (0: never filled)
  sinkFragment,               \* history: the fragment the last closeSink put into the
                              \* dequeue exchange slot, until a dequeue takes it out
  sinkEnqueued,               \* history: a filled fragment was enqueued since then
  \* enqueue's 16-bit locals, for queues of any capacity:
  tailIndex,                  \* fragmentIndex of the last enqueue
  trapped,                    \* the process was killed by a division by zero
  \* main(): the command line and what is made of it
  av,                         \* [0..ac-1 -> argument], av[0] being the program;
                              \* an argument is the sequence of its pieces, a
                              \* leading '-' being a piece of its own
  argi,                       \* the loop variable i of parseCommandLine
  globalOpts,
  localOpts,
  missingArgs,                \* keys reported on cerr as missing their argument
  overrides,                  \* calls of OSystem::overrideBaseDir[WithApp] made
  mainPc                      \* "start", "parse", "check", "done"
                              \* ("none": main not modelled)

queueVars == <<myFragmentQueue, mySize, myNextFragment,
               myFirstFragmentForEnqueue, myFirstFragmentForDequeue>>
histVars == <<enqLog, deqLog, dropped, stamp>>
sinkVars == <<sinkFragment, sinkEnqueued>>
ctorVars == <<capacity, myFragmentSize, myIsStereo>>
narrowVars == <<tailIndex, trapped>>
mainVars == <<av, argi, globalOpts, localOpts, missingArgs, overrides, mainPc>>
\* what the operations of a queue of small capacity never touch
asideVars == <<narrowVars, mainVars>>
vars == <<capacity, myFragmentSize, myIsStereo, myFragmentQueue, mySize, myNextFragment,
          myFirstFragmentForEnqueue, myFirstFragmentForDequeue,
          myIgnoreOverflows, myMutex, pc, op, arg, ret, failed, logCalls,
          held, protocolOk, misuse, enqLog, deqLog, dropped, stamp,
          sinkFragment, sinkEnqueued,
          tailIndex, trapped,
          av, argi, globalOpts, localOpts, missingArgs, overrides, mainPc>>

\* ---- the fragment pool --------------------------------------------------
\* myFragmentBuffer.get(): the address of the allocated buffer, never null
BufferBase == 1

\* const uInt8 sampleSize = myIsStereo ? 2 : 1;
SampleSize(isStereo) == IF isStereo THEN 2 ELSE 1

\* mutant: the index of the fragment is left out of the offset
FragmentOffset_NoIndex(i, sampleSize, fragmentSize) == sampleSize * fragmentSize

\* i * sampleSize * myFragmentSize.  The product is computed in 32 bits
\* unsigned; it stays far below 2^32 for the fragment sizes of this model, so
\* the reduction modulo 2^32 is the identity here.
FragmentOffset(i, sampleSize, fragmentSize) == i * sampleSize * fragmentSize

\* pointer of pool fragment i: myFragmentBuffer.get() + i * sampleSize * myFragmentSize
FragmentAt(i) ==
  BufferBase + FragmentOffset(i, SampleSize(myIsStereo), myFragmentSize)

AllFragments == {FragmentAt(i) : i \in 0..(capacity + 1)}

Pointers == {NULL} \cup AllFragments

\* ---- pure steps of the operations ---------------------------------------
ToUInt16(x) == x % UInt16Range

\* const uInt16 capacity = uInt16(myFragmentQueue.size());
EnqueueCapacity(n) == ToUInt16(n)

\* mutant: the tail index leaves the size out
FragmentIndex_IgnoresSize(next, size, cap16) == ToUInt16(next % cap16)

\* const uInt16 fragmentIndex = (myNextFragment + mySize) % capacity;
FragmentIndex(next, size, cap16) == ToUInt16((next + size) % cap16)

\* mutant: the store into the tail slot is lost
QueueAfterEnqueue_NoStore(queue, fragmentIndex, fragment) == queue

\* myFragmentQueue.at(fragmentIndex) = fragment;
QueueAfterEnqueue(queue, fragmentIndex, fragment) ==
  [queue EXCEPT ![fragmentIndex] = fragment]

\* mutant: the store into the head slot is lost
QueueAfterDequeue_NoStore(queue, next, fragment) == queue

\* myFragmentQueue.at(myNextFragment) = fragment;
QueueAfterDequeue(queue, next, fragment) == [queue EXCEPT ![next] = fragment]

\* mutant: ++mySize without the test
SizeAfterEnqueue_Unchecked(size, cap16) == size + 1

\* if (mySize < capacity) ++mySize;
SizeAfterEnqueue(size, cap16) == IF size < cap16 THEN size + 1 ELSE size

\* mutant: the head is not advanced on overflow
NextAfterEnqueue_NoAdvance(next, size, cap16) == next

\* else { myNextFragment = (myNextFragment + 1) % capacity; ... }
NextAfterEnqueue(next, size, cap16) ==
  IF size < cap16 THEN next ELSE (next + 1) % cap16

\* mutant: the logger is called whatever myIgnoreOverflows says
LogCallsOfEnqueue_Unsuppressed(size, cap16, ignore) ==
  IF size < cap16 THEN 0 ELSE 1

\* else { ...; if (!myIgnoreOverflows) myOverflowLogger.log(); }
LogCallsOfEnqueue(size, cap16, ignore) ==
  IF size < cap16 THEN 0 ELSE IF ~ignore THEN 1 ELSE 0

\* mutant: while notifications are wanted a full queue keeps its oldest
\* fragment and hands the new one back
EnqueueExchange_KeepsWhenLogging(queue, size, next, fragment, ignore, n) ==
  LET cap16 == EnqueueCapacity(n)
      fragmentIndex == FragmentIndex(next, size, cap16)
      keeps == size >= cap16 /\ ~ignore
  IN
  IF fragmentIndex \notin DOMAIN queue THEN
    [threw |-> TRUE, queue |-> queue, size |-> size, next |-> next,
     ret |-> NULL, logCalls |-> 0]
  ELSE
    [threw |-> FALSE,
     queue |-> IF keeps THEN queue
               ELSE QueueAfterEnqueue(queue, fragmentIndex, fragment),
     size |-> SizeAfterEnqueue(size, cap16),
     next |-> IF keeps THEN next ELSE NextAfterEnqueue(next, size, cap16),
     ret |-> IF keeps THEN fragment ELSE queue[fragmentIndex],
     logCalls |-> LogCallsOfEnqueue(size, cap16, ignore)]

\* enqueue of a fragment that is not null: what it writes and returns, for a
\* queue of n slots
EnqueueExchange(queue, size, next, fragment, ignore, n) ==
  LET cap16 == EnqueueCapacity(n)
      fragmentIndex == FragmentIndex(next, size, cap16)
  IN
  IF fragmentIndex \notin DOMAIN queue THEN   \* at() throws
    [threw |-> TRUE, queue |-> queue, size |-> size, next |-> next,
     ret |-> NULL, logCalls |-> 0]
  ELSE
    [threw |-> FALSE,
     queue |-> QueueAfterEnqueue(queue, fragmentIndex, fragment),
     size |-> SizeAfterEnqueue(size, cap16),
     next |-> NextAfterEnqueue(next, size, cap16),
     ret |-> queue[fragmentIndex],
     logCalls |-> LogCallsOfEnqueue(size, cap16, ignore)]

\* mutant: the test of the enqueue exchange slot is missing
EnqueueThrows_Never(fragment, first) == FALSE

\* if (!myFirstFragmentForEnqueue) throw runtime_error("enqueue called empty");
EnqueueThrows(fragment, first) == fragment = NULL /\ first = NULL

\* mutant: the test for an empty queue is missing
DequeueUnderflow_Never(size) == FALSE

\* if (mySize == 0) return nullptr;
DequeueUnderflow(size) == size = 0

\* mutant: the enqueue exchange slot keeps its fragment
EnqueueFirstAfter_Kept(first) == first

\* if (!fragment) { ...; myFirstFragmentForEnqueue = nullptr; ... }
EnqueueFirstAfter(first) == NULL

\* mutant: the test of the dequeue exchange slot is missing
DequeueThrows_Never(fragment, first) == FALSE

\* if (!fragment) { if (!myFirstFragmentForDequeue) throw runtime_error(...); ... }
DequeueThrows(fragment, first) == fragment = NULL /\ first = NULL

\* mutant: the fragment of the dequeue exchange slot is not picked up
DequeueFragment_IgnoresFirst(fragment, first) == fragment

\* if (!fragment) { ...; fragment = myFirstFragmentForDequeue; ... }
DequeueFragment(fragment, first) == IF fragment = NULL THEN first ELSE fragment

\* mutant: the dequeue exchange slot is not emptied
DequeueFirstAfter_Kept(fragment, first) == first

\* if (!fragment) { ...; myFirstFragmentForDequeue = nullptr; }
DequeueFirstAfter(fragment, first) == IF fragment = NULL THEN NULL ELSE first

\* mutant: the size is not decremented
SizeAfterDequeue_Unchanged(size) == size

\* --mySize;
SizeAfterDequeue(size) == size - 1

\* mutant: the head is not advanced by dequeue
NextAfterDequeue_Stuck(next, n) == next

\* myNextFragment = (myNextFragment + 1) % myFragmentQueue.size();
NextAfterDequeue(next, n) == (next + 1) % n

\* mutant: the test of the dequeue exchange slot is missing
CloseSinkThrows_Never(first, fragment) == FALSE

\* mutant: throws on an occupied slot whatever the fragment
CloseSinkThrows_OnOccupied(first, fragment) == first # NULL

\* if (myFirstFragmentForDequeue && fragment) throw new runtime_error(...);
CloseSinkThrows(first, fragment) == first # NULL /\ fragment # NULL

\* mutant: the fragment handed back is not stored
CloseSinkFirstAfter_Dropped(first, fragment) == first

\* if (!myFirstFragmentForDequeue) myFirstFragmentForDequeue = fragment;
CloseSinkFirstAfter(first, fragment) == IF first = NULL THEN fragment ELSE first

\* ---- construction -------------------------------------------------------
\* mutant: the constructor leaves overflow notifications on
InitialIgnoreOverflows_Cleared == FALSE

\* myIgnoreOverflows(true) in the member initializer list
InitialIgnoreOverflows == TRUE

\* the state the constructor leaves, for the parameters it was given
Constructed ==
  /\ myFragmentQueue = [i \in 0..(capacity - 1) |-> FragmentAt(i)]
  /\ mySize = 0
  /\ myNextFragment = 0
  /\ myFirstFragmentForEnqueue = FragmentAt(capacity)
  /\ myFirstFragmentForDequeue = FragmentAt(capacity + 1)
  /\ myIgnoreOverflows = InitialIgnoreOverflows
  /\ myMutex = NoThread
  /\ pc = [t \in Threads |-> "idle"]
  /\ op = [t \in Threads |-> "none"]
  /\ arg = [t \in Threads |-> NULL]
  /\ ret = [t \in Threads |-> NULL]
  /\ failed = [t \in Threads |-> FALSE]
  /\ logCalls = 0
  /\ held = [t \in Threads |-> NULL]
  /\ protocolOk = TRUE
  /\ misuse = 0
  /\ enqLog = << >>
  /\ deqLog = << >>
  /\ dropped = {}
  /\ stamp = [f \in AllFragments |-> 0]
  /\ sinkFragment = NULL
  /\ sinkEnqueued = FALSE

\* no enqueue has computed an index yet
NarrowIdle ==
  /\ tailIndex = 0
  /\ trapped = FALSE

\* main() is not part of the behaviour
MainIdle ==
  /\ av = << >>
  /\ argi = 0
  /\ globalOpts = << >>
  /\ localOpts = << >>
  /\ missingArgs = << >>
  /\ overrides = << >>
  /\ mainPc = "none"

\* a queue of mono fragments of one sample: the operations never look at the
\* stride of the pool
Init ==
  /\ capacity \in 1..MaxCapacity
  /\ myFragmentSize = 1
  /\ myIsStereo = FALSE
  /\ Constructed
  /\ NarrowIdle
  /\ MainIdle

\* ---- the callers (producer: emulation thread, consumer: audio callback) --
\* fragment a thread owns after a call that returned newFragment without throwing
HeldAfterExchange(before, newFragment) ==
  IF newFragment = NULL THEN before ELSE newFragment

\* fragment the consumer owns after closeSink(fragment) returned without throwing
HeldAfterCloseSink(before, fragment) ==
  IF fragment = before THEN NULL ELSE before

StampOf(f) == IF f \in DOMAIN stamp THEN stamp[f] ELSE 0

\* ---- a call: the caller passes a fragment and blocks on the mutex ---------
Call(t, o, f) ==
  /\ pc[t] = "idle"
  /\ (f # held[t]) => misuse < MaxMisuse
  /\ pc' = [pc EXCEPT ![t] = "lock"]
  /\ op' = [op EXCEPT ![t] = o]
  /\ arg' = [arg EXCEPT ![t] = f]
  /\ ret' = [ret EXCEPT ![t] = NULL]
  /\ failed' = [failed EXCEPT ![t] = FALSE]
  /\ protocolOk' = (protocolOk /\ f = held[t])
  /\ misuse' = IF f = held[t] THEN misuse ELSE misuse + 1
  /\ enqLog' = enqLog
  /\ deqLog' = IF protocolOk' THEN deqLog ELSE << >>
  /\ dropped' = IF protocolOk' THEN dropped ELSE {}
  /\ stamp' = IF protocolOk' THEN stamp ELSE [x \in AllFragments |-> 0]
  /\ UNCHANGED <<ctorVars, asideVars, queueVars, myIgnoreOverflows, myMutex, logCalls, held,
                 sinkVars>>

\* the producer passes the fragment it holds, or no fragment
EnqueueCall ==
  \E f \in {NULL, held[Producer]} :
    /\ f # NULL => Len(enqLog) < MaxEnqueues
    /\ Call(Producer, "enqueue", f)

\* the consumer passes the fragment it holds, or no fragment
DequeueCall == \E f \in {NULL, held[Consumer]} : Call(Consumer, "dequeue", f)

\* closeSink is given the fragment the consumer holds, no fragment, or (a double
\* return) a fragment the consumer does not hold any more
CloseSinkCall == \E f \in Pointers : Call(Consumer, "closeSink", f)

SizeCall ==
  \E t \in Threads :
    /\ pc[t] = "idle"
    /\ pc' = [pc EXCEPT ![t] = "lock"]
    /\ op' = [op EXCEPT ![t] = "size"]
    /\ arg' = [arg EXCEPT ![t] = NULL]
    /\ ret' = [ret EXCEPT ![t] = NULL]
    /\ failed' = [failed EXCEPT ![t] = FALSE]
    /\ UNCHANGED <<ctorVars, asideVars, queueVars, myIgnoreOverflows, myMutex, logCalls,
                   held, protocolOk, misuse, histVars, sinkVars>>

\* lock_guard<mutex> guard(myMutex);
Lock ==
  \E t \in Threads :
    /\ pc[t] = "lock"
    /\ myMutex = NoThread
    /\ myMutex' = t
    /\ pc' = [pc EXCEPT ![t] = "body"]
    /\ UNCHANGED <<ctorVars, asideVars, queueVars, myIgnoreOverflows, op, arg, ret, failed,
                   logCalls, held, protocolOk, misuse, histVars, sinkVars>>

\* ~lock_guard() at scope exit, by return or by stack unwinding
Unlock ==
  \E t \in Threads :
    /\ pc[t] = "unlock"
    /\ myMutex' = NoThread
    /\ pc' = [pc EXCEPT ![t] = "idle"]
    /\ op' = [op EXCEPT ![t] = "none"]
    /\ arg' = [arg EXCEPT ![t] = NULL]
    /\ ret' = [ret EXCEPT ![t] = NULL]
    /\ logCalls' = 0
    /\ UNCHANGED <<ctorVars, asideVars, queueVars, myIgnoreOverflows, failed, held,
                   protocolOk, misuse, histVars, sinkVars>>

\* mutant: the queue is reset before the throw
Throw_AfterReset(t) ==
  /\ failed' = [failed EXCEPT ![t] = TRUE]
  /\ pc' = [pc EXCEPT ![t] = "unlock"]
  /\ logCalls' = 0
  /\ mySize' = 0
  /\ myNextFragment' = 0
  /\ UNCHANGED <<ctorVars, asideVars, myFragmentQueue, myFirstFragmentForEnqueue,
                 myFirstFragmentForDequeue, myIgnoreOverflows, myMutex, op, arg,
                 ret, held, protocolOk, misuse, histVars, sinkVars>>

\* mutant: the throw leaves the function without destroying the lock_guard
Throw_NoUnwind(t) ==
  /\ failed' = [failed EXCEPT ![t] = TRUE]
  /\ pc' = [pc EXCEPT ![t] = "idle"]
  /\ op' = [op EXCEPT ![t] = "none"]
  /\ arg' = [arg EXCEPT ![t] = NULL]
  /\ logCalls' = 0
  /\ UNCHANGED <<ctorVars, asideVars, queueVars, myIgnoreOverflows, myMutex, ret,
                 held, protocolOk, misuse, histVars, sinkVars>>

\* the body ends by a throw: nothing was written, the stack unwinding runs
\* ~lock_guard()
Throw(t) ==
  /\ failed' = [failed EXCEPT ![t] = TRUE]
  /\ pc' = [pc EXCEPT ![t] = "unlock"]
  /\ logCalls' = 0
  /\ UNCHANGED <<ctorVars, asideVars, queueVars, myIgnoreOverflows, myMutex, op, arg, ret,
                 held, protocolOk, misuse, histVars, sinkVars>>

\* Int16* AudioQueue::enqueue(Int16* fragment)
EnqueueBody ==
  \E t \in Threads :
    /\ pc[t] = "body" /\ op[t] = "enqueue"
    /\ LET fragment == arg[t] IN
       IF fragment = NULL THEN
         IF EnqueueThrows(fragment, myFirstFragmentForEnqueue) THEN Throw(t)
         ELSE
           /\ ret' = [ret EXCEPT ![t] = myFirstFragmentForEnqueue]
           /\ myFirstFragmentForEnqueue' =
                EnqueueFirstAfter(myFirstFragmentForEnqueue)
           /\ held' = [held EXCEPT
                         ![t] = HeldAfterExchange(held[t], myFirstFragmentForEnqueue)]
           /\ pc' = [pc EXCEPT ![t] = "unlock"]
           /\ logCalls' = 0
           /\ UNCHANGED <<ctorVars, asideVars, myFragmentQueue, mySize, myNextFragment,
                          myFirstFragmentForDequeue, myIgnoreOverflows, myMutex,
                          op, arg, failed, protocolOk, misuse, histVars, sinkVars>>
       ELSE
         LET r == EnqueueExchange(myFragmentQueue, mySize, myNextFragment,
                                  fragment, myIgnoreOverflows, capacity)
         IN
         IF r.threw THEN Throw(t)
         ELSE
           LET newFragment == r.ret
               n == Len(enqLog) + 1
           IN
           /\ myFragmentQueue' = r.queue
           /\ mySize' = r.size
           /\ myNextFragment' = r.next
           /\ logCalls' = r.logCalls
           /\ ret' = [ret EXCEPT ![t] = newFragment]
           /\ held' = [held EXCEPT ![t] = HeldAfterExchange(held[t], newFragment)]
           /\ pc' = [pc EXCEPT ![t] = "unlock"]
           /\ enqLog' = Append(enqLog, n)
           /\ stamp' = IF protocolOk THEN [stamp EXCEPT ![fragment] = n] ELSE stamp
           /\ dropped' = IF mySize < EnqueueCapacity(capacity) \/ ~protocolOk
                         THEN dropped
                         ELSE dropped \cup {StampOf(newFragment)}
           /\ sinkEnqueued' = (sinkFragment # NULL)
           /\ UNCHANGED <<ctorVars, asideVars, myFirstFragmentForEnqueue,
                          myFirstFragmentForDequeue, myIgnoreOverflows, myMutex,
                          op, arg, failed, protocolOk, misuse, deqLog,
                          sinkFragment>>

\* The whole exchange of dequeue as a function of the queue state and the
\* argument: what it returns, whether it threw, and the state it leaves.
DequeueExchange(queue, size, next, first, fragment, n) ==
  LET same == [threw |-> FALSE, underflow |-> FALSE, queue |-> queue,
               size |-> size, next |-> next, first |-> first, ret |-> NULL]
  IN
  IF DequeueUnderflow(size) THEN [same EXCEPT !.underflow = TRUE]
  ELSE IF DequeueThrows(fragment, first) THEN [same EXCEPT !.threw = TRUE]
  ELSE IF next \notin DOMAIN queue THEN [same EXCEPT !.threw = TRUE]  \* at() throws
  ELSE
    [threw     |-> FALSE,
     underflow |-> FALSE,
     queue     |-> QueueAfterDequeue(queue, next, DequeueFragment(fragment, first)),
     size      |-> SizeAfterDequeue(size),
     next      |-> NextAfterDequeue(next, n),
     first     |-> DequeueFirstAfter(fragment, first),
     ret       |-> queue[next]]

\* Int16* AudioQueue::dequeue(Int16* fragment)
DequeueBody ==
  \E t \in Threads :
    /\ pc[t] = "body" /\ op[t] = "dequeue"
    /\ LET r == DequeueExchange(myFragmentQueue, mySize, myNextFragment,
                                myFirstFragmentForDequeue, arg[t], capacity)
       IN
       IF r.underflow THEN
         /\ ret' = [ret EXCEPT ![t] = NULL]
         /\ pc' = [pc EXCEPT ![t] = "unlock"]
         /\ logCalls' = 0
         /\ UNCHANGED <<ctorVars, asideVars, queueVars, myIgnoreOverflows, myMutex, op, arg,
                        failed, held, protocolOk, misuse, histVars, sinkVars>>
       ELSE IF r.threw THEN Throw(t)
       ELSE
         /\ myFirstFragmentForDequeue' = r.first
         /\ myFragmentQueue' = r.queue
         /\ mySize' = r.size
         /\ myNextFragment' = r.next
         /\ ret' = [ret EXCEPT ![t] = r.ret]
         /\ held' = [held EXCEPT ![t] = HeldAfterExchange(held[t], r.ret)]
         /\ pc' = [pc EXCEPT ![t] = "unlock"]
         /\ logCalls' = 0
         /\ deqLog' = IF protocolOk THEN Append(deqLog, StampOf(r.ret))
                       ELSE deqLog
         /\ sinkFragment' = IF arg[t] = NULL THEN NULL ELSE sinkFragment
         /\ sinkEnqueued' = IF arg[t] = NULL THEN FALSE ELSE sinkEnqueued
         /\ UNCHANGED <<ctorVars, asideVars, myFirstFragmentForEnqueue, myIgnoreOverflows,
                        myMutex, op, arg, failed, protocolOk, misuse,
                        enqLog, dropped, stamp>>

\* void AudioQueue::closeSink(Int16* fragment)
CloseSinkBody ==
  \E t \in Threads :
    /\ pc[t] = "body" /\ op[t] = "closeSink"
    /\ IF CloseSinkThrows(myFirstFragmentForDequeue, arg[t]) THEN Throw(t)
       ELSE
         /\ myFirstFragmentForDequeue' =
              CloseSinkFirstAfter(myFirstFragmentForDequeue, arg[t])
         /\ held' = [held EXCEPT ![t] = HeldAfterCloseSink(held[t], arg[t])]
         /\ pc' = [pc EXCEPT ![t] = "unlock"]
         /\ logCalls' = 0
         /\ sinkFragment' = IF arg[t] # NULL THEN arg[t] ELSE sinkFragment
         /\ sinkEnqueued' = IF arg[t] # NULL THEN FALSE ELSE sinkEnqueued
         /\ UNCHANGED <<ctorVars, asideVars, myFragmentQueue, mySize, myNextFragment,
                        myFirstFragmentForEnqueue, myIgnoreOverflows, myMutex,
                        op, arg, ret, failed, protocolOk, misuse, histVars>>

\* uInt32 AudioQueue::size()
SizeBody ==
  \E t \in Threads :
    /\ pc[t] = "body" /\ op[t] = "size"
    /\ ret' = [ret EXCEPT ![t] = mySize]
    /\ pc' = [pc EXCEPT ![t] = "unlock"]
    /\ logCalls' = 0
    /\ UNCHANGED <<ctorVars, asideVars, queueVars, myIgnoreOverflows, myMutex, op, arg,
                   failed, held, protocolOk, misuse, histVars, sinkVars>>

\* void AudioQueue::ignoreOverflows(bool shouldIgnoreOverflows): takes no lock
IgnoreOverflows ==
  \E shouldIgnoreOverflows \in BOOLEAN :
    /\ myIgnoreOverflows' = shouldIgnoreOverflows
    /\ UNCHANGED <<ctorVars, asideVars, queueVars, myMutex, pc, op, arg, ret, failed,
                   logCalls, held, protocolOk, misuse, histVars, sinkVars>>

Next ==
  \/ EnqueueCall
  \/ DequeueCall
  \/ CloseSinkCall
  \/ SizeCall
  \/ Lock
  \/ EnqueueBody
  \/ DequeueBody
  \/ CloseSinkBody
  \/ SizeBody
  \/ Unlock
  \/ IgnoreOverflows

Spec == Init /\ [][Next]_vars

\* ---- construction alone --------------------------------------------------
\* every queue the constructor builds from a capacity, a fragment size and a
\* channel count, then only read: size() and ignoreOverflows() leave the
\* fragments where the constructor put them
InitPool ==
  /\ capacity \in 0..MaxCapacity
  /\ myFragmentSize \in 0..MaxFragmentSize
  /\ myIsStereo \in BOOLEAN
  /\ Constructed
  /\ NarrowIdle
  /\ MainIdle

NextPool ==
  \/ SizeCall
  \/ Lock
  \/ SizeBody
  \/ Unlock
  \/ IgnoreOverflows

SpecPool == InitPool /\ [][NextPool]_vars

\* ---- the counters of a queue of any capacity -----------------------------
\* The slots and the fragments are left out: a queue of 65536 slots and more
\* is followed by its size, its head and the index enqueue computes.
NarrowCapacities ==
  {1, 2, MaxCapacity, UInt16Range - 1, UInt16Range, UInt16Range + 1,
   UInt16Range + 2, 2 * UInt16Range}

InitNarrow ==
  /\ capacity \in NarrowCapacities
  /\ myFragmentSize = 1
  /\ myIsStereo = FALSE
  /\ myFragmentQueue = << >>
  /\ mySize = 0
  /\ myNextFragment = 0
  /\ myFirstFragmentForEnqueue = FragmentAt(capacity)
  /\ myFirstFragmentForDequeue = FragmentAt(capacity + 1)
  /\ myIgnoreOverflows = InitialIgnoreOverflows
  /\ myMutex = NoThread
  /\ pc = [t \in Threads |-> "idle"]
  /\ op = [t \in Threads |-> "none"]
  /\ arg = [t \in Threads |-> NULL]
  /\ ret = [t \in Threads |-> NULL]
  /\ failed = [t \in Threads |-> FALSE]
  /\ logCalls = 0
  /\ held = [t \in Threads |-> NULL]
  /\ protocolOk = TRUE
  /\ misuse = 0
  /\ enqLog = << >>
  /\ deqLog = << >>
  /\ dropped = {}
  /\ stamp = << >>
  /\ sinkFragment = NULL
  /\ sinkEnqueued = FALSE
  /\ NarrowIdle
  /\ MainIdle

\* what enqueue and dequeue leave alone when only the counters are followed
narrowFrame ==
  <<ctorVars, myFragmentQueue, myFirstFragmentForEnqueue,
    myFirstFragmentForDequeue, myIgnoreOverflows, myMutex, pc, op, arg, ret,
    failed, logCalls, held, protocolOk, misuse, deqLog, dropped, stamp,
    sinkVars, mainVars>>

\* enqueue of a fragment that is not null: fragmentIndex, mySize, myNextFragment.
\* With a capacity that narrows to 0 both "% capacity" divide by zero, which
\* is undefined: the process is killed by the trap, or (a divide instruction
\* that yields 0) the remainder is the dividend.
NarrowEnqueue ==
  /\ ~trapped
  /\ Len(enqLog) < MaxEnqueues
  /\ enqLog' = Append(enqLog, Len(enqLog) + 1)
  /\ LET cap16 == EnqueueCapacity(capacity) IN
     IF cap16 = 0 THEN
       \E trap \in BOOLEAN :
         IF trap THEN
           /\ trapped' = TRUE
           /\ UNCHANGED <<tailIndex, mySize, myNextFragment>>
         ELSE
           /\ tailIndex' = ToUInt16(myNextFragment + mySize)
           /\ mySize' = mySize
           /\ myNextFragment' = myNextFragment + 1
           /\ trapped' = FALSE
     ELSE
       /\ tailIndex' = FragmentIndex(myNextFragment, mySize, cap16)
       /\ mySize' = SizeAfterEnqueue(mySize, cap16)
       /\ myNextFragment' = NextAfterEnqueue(myNextFragment, mySize, cap16)
       /\ trapped' = FALSE
  /\ UNCHANGED narrowFrame

\* dequeue from a queue that is not empty: mySize, myNextFragment
NarrowDequeue ==
  /\ ~trapped
  /\ ~DequeueUnderflow(mySize)
  /\ mySize' = SizeAfterDequeue(mySize)
  /\ myNextFragment' = NextAfterDequeue(myNextFragment, capacity)
  /\ UNCHANGED <<narrowFrame, enqLog, tailIndex, trapped>>

NextNarrow ==
  \/ NarrowEnqueue
  \/ NarrowDequeue

SpecNarrow == InitNarrow /\ [][NextNarrow]_vars

\* ---- main(): the command line --------------------------------------------
Dash == "-"
Program == <<"stella">>
ROMFILE == <<"ROMFILE">>
EmptyString == << >>

\* the arguments tried: flags of each list, options that take a value, an
\* option with an empty name, a plain word and the empty string
ArgPool ==
  {<<Dash, "help">>, <<Dash, "debug">>, <<Dash, "baseinappdir">>,
   <<Dash, "basedir">>, <<Dash, "volume">>, <<Dash>>, <<"dir">>, EmptyString}

ArgVectors(n) ==
  {[j \in 0..n |-> IF j = 0 THEN Program ELSE tail[j]] : tail \in [1..n -> ArgPool]}

\* int ac
ac == Cardinality(DOMAIN av)

\* key[0] == '-' (key[0] of an empty string is the terminating '\0')
IsOption(key) == Len(key) > 0 /\ key[1] = Dash

\* key.substr(1)
Substr1(key) == Tail(key)

\* key == "help" || key == "listrominfo" || key == "rominfo" || key == "takesnapshot"
LocalFlags == {<<"help">>, <<"listrominfo">>, <<"rominfo">>, <<"takesnapshot">>}

\* key == "debug" || key == "holdselect" || key == "holdreset"
GlobalFlags == {<<"debug">>, <<"holdselect">>, <<"holdreset">>}

\* key == "baseinappdir"
BaseInAppDir == <<"baseinappdir">>

BaseDir == <<"basedir">>

\* key == "basedir" || key == "break"
LocalValued == {BaseDir, <<"break">>}

\* the value stored by  opts[key] = true
VariantTrue == [kind |-> "bool", text |-> <<"1">>]

\* the value stored by  opts[key] = av[i]  and by  localOpts["ROMFILE"] = ""
VariantOfString(str) == [kind |-> "string", text |-> str]

\* it->second.toString()
VariantToString(variant) == variant.text

\* opts[key] = value
Put(opts, key, value) ==
  [k \in DOMAIN opts \cup {key} |-> IF k = key THEN value ELSE opts[k]]

\* One iteration of the loop of parseCommandLine, the ++i of the for
\* statement included, as a function of the loop variable and the two maps.
ParseArgument(argv, argc, i, global, local, missing) ==
  LET same == [i |-> i + 1, global |-> global, local |-> local,
               missing |-> missing]
  IN
  IF IsOption(argv[i]) THEN
    LET key == Substr1(argv[i]) IN
    IF key \in LocalFlags THEN
      [same EXCEPT !.local = Put(local, key, VariantTrue)]
    ELSE IF key \in GlobalFlags THEN
      [same EXCEPT !.global = Put(global, key, VariantTrue)]
    ELSE IF key = BaseInAppDir THEN
      [same EXCEPT !.local = Put(local, key, VariantTrue)]
    ELSE IF i + 1 >= argc THEN            \* if(++i >= ac)
      [same EXCEPT !.i = i + 2, !.missing = Append(missing, key)]
    ELSE IF key \in LocalValued THEN
      [same EXCEPT !.i = i + 2,
                   !.local = Put(local, key, VariantOfString(argv[i + 1]))]
    ELSE
      [same EXCEPT !.i = i + 2,
                   !.global = Put(global, key, VariantOfString(argv[i + 1]))]
  ELSE
    [same EXCEPT !.local = Put(local, ROMFILE, VariantOfString(argv[i]))]

OverrideWithApp == [fn |-> "overrideBaseDirWithApp", dir |-> EmptyString]
Override(dir) == [fn |-> "overrideBaseDir", dir |-> dir]

\* mutant: basedir is looked up first
CustomBaseDirCalls_BaseDirFirst(options) ==
  IF BaseDir \in DOMAIN options THEN <<Override(VariantToString(options[BaseDir]))>>
  ELSE IF BaseInAppDir \in DOMAIN options THEN <<OverrideWithApp>>
  ELSE << >>

\* checkForCustomBaseDir: the calls of OSystem it makes
CustomBaseDirCalls(options) ==
  IF BaseInAppDir \in DOMAIN options THEN <<OverrideWithApp>>
  ELSE IF BaseDir \in DOMAIN options THEN <<Override(VariantToString(options[BaseDir]))>>
  ELSE << >>

\* main() is entered with any command line of at most MaxArgs arguments; no
\* queue operation takes place
InitMain ==
  /\ capacity = 1
  /\ myFragmentSize = 1
  /\ myIsStereo = FALSE
  /\ Constructed
  /\ NarrowIdle
  /\ \E n \in 0..MaxArgs : av \in ArgVectors(n)
  /\ argi = 0
  /\ globalOpts = << >>
  /\ localOpts = << >>
  /\ missingArgs = << >>
  /\ overrides = << >>
  /\ mainPc = "start"

mainFrame == <<ctorVars, queueVars, myIgnoreOverflows, myMutex, pc, op, arg, ret,
               failed, logCalls, held, protocolOk, misuse, histVars, sinkVars,
               narrowVars, av>>

\* localOpts["ROMFILE"] = "";  for(int i = 1; ...
ParseBegin ==
  /\ mainPc = "start"
  /\ localOpts' = Put(localOpts, ROMFILE, VariantOfString(EmptyString))
  /\ argi' = 1
  /\ mainPc' = "parse"
  /\ UNCHANGED <<mainFrame, globalOpts, missingArgs, overrides>>

\* the body of the loop for one i < ac
ParseStep ==
  /\ mainPc = "parse"
  /\ argi < ac
  /\ LET r == ParseArgument(av, ac, argi, globalOpts, localOpts, missingArgs)
     IN /\ argi' = r.i
        /\ globalOpts' = r.global
        /\ localOpts' = r.local
        /\ missingArgs' = r.missing
  /\ UNCHANGED <<mainFrame, overrides, mainPc>>

\* i >= ac: parseCommandLine returns
ParseEnd ==
  /\ mainPc = "parse"
  /\ argi >= ac
  /\ mainPc' = "check"
  /\ UNCHANGED <<mainFrame, argi, globalOpts, localOpts, missingArgs, overrides>>

\* checkForCustomBaseDir(localOpts);
CheckForCustomBaseDir ==
  /\ mainPc = "check"
  /\ overrides' = overrides \o CustomBaseDirCalls(localOpts)
  /\ mainPc' = "done"
  /\ UNCHANGED <<mainFrame, argi, globalOpts, localOpts, missingArgs>>

NextMain ==
  \/ ParseBegin
  \/ ParseStep
  \/ ParseEnd
  \/ CheckForCustomBaseDir

SpecMain == InitMain /\ [][NextMain]_vars

\* ---- scheduling ---------------------------------------------------------
\* a step of thread t while it owns the mutex: its body, or its ~lock_guard()
HolderStep(t) ==
  /\ myMutex = t
  /\ (EnqueueBody \/ DequeueBody \/ CloseSinkBody \/ SizeBody \/ Unlock)

\* thread t, blocked in the constructor of its lock_guard, gets the mutex
LockStep(t) == pc[t] = "lock" /\ Lock /\ pc'[t] = "body"

\* A thread that stays able to run does run: the owner of the mutex goes on,
\* and a thread waiting for a mutex that stays free gets it.  std::mutex
\* promises no more: a waiting thread may be overtaken again and again.
FairSpec ==
  /\ Spec
  /\ \A t \in Threads : WF_vars(HolderStep(t)) /\ WF_vars(LockStep(t))

\* ---- notions the claims use ---------------------------------------------
Other(t) == IF t = Producer THEN Consumer ELSE Producer

\* the body of thread t's call of operation o runs in this step
BodyStep(t, o) == pc[t] = "body" /\ op[t] = o /\ pc'[t] = "unlock"

\* thread t's call of operation o has run its body and not returned yet
AfterBody(t, o) == pc[t] = "unlock" /\ op[t] = o

\* in how many places fragment f is
PlaceCount(f) ==
  Cardinality({i \in DOMAIN myFragmentQueue : myFragmentQueue[i] = f})
  + (IF myFirstFragmentForEnqueue = f THEN 1 ELSE 0)
  + (IF myFirstFragmentForDequeue = f THEN 1 ELSE 0)
  + (IF held[Producer] = f THEN 1 ELSE 0)
  + (IF held[Consumer] = f THEN 1 ELSE 0)

\* the filled fragments awaiting playback, oldest first
Queued ==
  [k \in 1..mySize |-> myFragmentQueue[(myNextFragment + k - 1) % capacity]]

QueuedStamps == {StampOf(Queued[k]) : k \in 1..mySize}

Range(s) == {s[i] : i \in 1..Len(s)}

RECURSIVE IsSubsequence(_, _)
IsSubsequence(s, t) ==
  IF s = << >> THEN TRUE
  ELSE IF t = << >> THEN FALSE
  ELSE IF Head(s) = Head(t) THEN IsSubsequence(Tail(s), Tail(t))
  ELSE IsSubsequence(s, Tail(t))

\* ---- C1 ------------------------------------------------------------------
\* C1: with protocol-following callers no fragment is held by the producer and
\* by the consumer at the same time, and the fragment an enqueue or a dequeue
\* returns is never the one the other thread holds.
C1_NoSharedFragment ==
  protocolOk =>
    /\ held[Producer] # NULL => held[Producer] # held[Consumer]
    /\ \A t \in Threads :
         (pc[t] = "unlock" /\ op[t] \in {"enqueue", "dequeue"} /\ ret[t] # NULL)
           => ret[t] # held[Other(t)]

\* both threads hold a fragment, the queue has overflowed, and a dequeue has
\* just handed the consumer a fragment
C1_Witness ==
  /\ protocolOk
  /\ held[Producer] # NULL
  /\ dropped # {}
  /\ AfterBody(Consumer, "dequeue")
  /\ ret[Consumer] # NULL
  /\ held[Consumer] = ret[Consumer]

\* ---- C2 ------------------------------------------------------------------
\* C2: conservation: with protocol-following callers each of the capacity+2
\* fragments is in exactly one place (a queue slot, an exchange slot, the
\* producer, the consumer), and no place holds anything else.
C2_Conservation ==
  protocolOk =>
    /\ \A f \in AllFragments : PlaceCount(f) = 1
    /\ \A i \in DOMAIN myFragmentQueue : myFragmentQueue[i] \in AllFragments
    /\ Cardinality(AllFragments) = capacity + 2

\* after an overflow drop and an underflow return, with both exchange slots empty
C2_Witness ==
  /\ protocolOk
  /\ dropped # {}
  /\ AfterBody(Consumer, "dequeue")
  /\ ret[Consumer] = NULL
  /\ arg[Consumer] # NULL
  /\ myFirstFragmentForEnqueue = NULL
  /\ myFirstFragmentForDequeue = NULL

\* ---- C3 ------------------------------------------------------------------
\* C3: capacity invariant: 0 <= size() <= capacity() after any sequence of
\* calls, failing calls included.
C3_CapacityInvariant == 0 <= mySize /\ mySize <= capacity

\* a queue that has overflowed is full when an empty-fragment dequeue fails
C3_Witness ==
  /\ mySize = capacity
  /\ Len(enqLog) > capacity
  /\ AfterBody(Consumer, "dequeue")
  /\ failed[Consumer]

\* ---- C4 ------------------------------------------------------------------
\* C4: FIFO: the fragments returned by successful dequeues are, in order, a
\* subsequence of the filled fragments enqueued; the enqueued fragments missing
\* from it are exactly the dropped and the still queued ones; and the first
\* dequeue returns the first fragment enqueued unless that one was dropped.
C4_FIFO ==
  protocolOk =>
    /\ IsSubsequence(deqLog, enqLog)
    /\ Range(enqLog) \ Range(deqLog) = dropped \cup QueuedStamps
    /\ (Len(deqLog) >= 1 /\ 1 \notin dropped) => deqLog[1] = 1

\* capacity 3: A, B, C enqueued, A dequeued, D and E enqueued (B dropped), C dequeued
C4_Witness ==
  /\ protocolOk
  /\ capacity = 3
  /\ enqLog = <<1, 2, 3, 4, 5>>
  /\ deqLog = <<1, 3>>
  /\ dropped = {2}

\* ---- C5 ------------------------------------------------------------------
\* C5: overflow: an enqueue of a non-empty fragment f into a full queue returns
\* the oldest queued fragment, keeps the other queued fragments in their order
\* with f as the newest, and leaves size equal to capacity.
C5_OverflowDrop ==
  [][\A t \in Threads :
       (BodyStep(t, "enqueue") /\ arg[t] # NULL /\ mySize = capacity)
         => /\ ~failed'[t]
            /\ ret'[t] = Queued[1]
            /\ Queued' = Append(Tail(Queued), arg[t])
            /\ mySize' = capacity]_vars

\* capacity 3, queue B, C, D: enqueue E has returned B and the queue is C, D, E
C5_Witness ==
  /\ protocolOk
  /\ capacity = 3
  /\ AfterBody(Producer, "enqueue")
  /\ enqLog = <<1, 2, 3, 4, 5>>
  /\ deqLog = <<1>>
  /\ StampOf(ret[Producer]) = 2
  /\ [k \in 1..mySize |-> StampOf(Queued[k])] = <<3, 4, 5>>

\* ---- C6 ------------------------------------------------------------------
\* C6: underflow: dequeue at size 0 returns null for every argument, without
\* failing, and leaves size, head, the queue slots and both exchange slots as
\* they were.
C6_Underflow ==
  [][\A t \in Threads :
       (BodyStep(t, "dequeue") /\ mySize = 0)
         => /\ ret'[t] = NULL
            /\ ~failed'[t]
            /\ UNCHANGED queueVars]_vars

\* an empty-fragment dequeue on an empty queue returned null and the dequeue
\* exchange slot is still occupied
C6_Witness ==
  /\ AfterBody(Consumer, "dequeue")
  /\ arg[Consumer] = NULL
  /\ ret[Consumer] = NULL
  /\ ~failed[Consumer]
  /\ mySize = 0
  /\ myFirstFragmentForDequeue # NULL

\* ---- C7 ------------------------------------------------------------------
\* C7 as claimed: every enqueue(f) and every dequeue(f) with a non-empty f
\* returns a fragment (never null) distinct from f.
C7_AlwaysExchanges ==
  [][\A t \in Threads :
       ((BodyStep(t, "enqueue") \/ BodyStep(t, "dequeue"))
        /\ arg[t] # NULL /\ protocolOk)
         => ~failed'[t] /\ ret'[t] # NULL /\ ret'[t] # arg[t]]_vars

\* C7 amended: every enqueue(f) with a non-empty f, and every dequeue(f) with a
\* non-empty f made while size > 0, returns a fragment (never null) distinct
\* from f; a dequeue(f) made while size = 0 returns null.
C7_ExchangesUnlessUnderflow ==
  [][\A t \in Threads :
       (arg[t] # NULL /\ protocolOk)
         => /\ (BodyStep(t, "enqueue") \/ (BodyStep(t, "dequeue") /\ mySize > 0))
                 => ~failed'[t] /\ ret'[t] # NULL /\ ret'[t] # arg[t]
            /\ (BodyStep(t, "dequeue") /\ mySize = 0)
                 => ~failed'[t] /\ ret'[t] = NULL]_vars

\* a dequeue with a non-empty fragment has returned another fragment while an
\* enqueue with a non-empty fragment has overflowed
C7_Witness ==
  /\ protocolOk
  /\ AfterBody(Consumer, "dequeue")
  /\ arg[Consumer] # NULL
  /\ ret[Consumer] # NULL
  /\ ret[Consumer] # arg[Consumer]
  /\ dropped # {}

\* ---- C8 ------------------------------------------------------------------
\* C8: enqueue with an empty fragment returns the fragment of the enqueue
\* exchange slot and empties the slot when the slot is occupied, and fails when
\* the slot is empty (changing nothing).
C8_EmptyEnqueue ==
  [][\A t \in Threads :
       (BodyStep(t, "enqueue") /\ arg[t] = NULL)
         => IF myFirstFragmentForEnqueue # NULL
            THEN /\ ~failed'[t]
                 /\ ret'[t] = myFirstFragmentForEnqueue
                 /\ myFirstFragmentForEnqueue' = NULL
            ELSE /\ failed'[t]
                 /\ UNCHANGED queueVars]_vars

\* the second empty-fragment enqueue has failed
C8_Witness ==
  /\ AfterBody(Producer, "enqueue")
  /\ arg[Producer] = NULL
  /\ failed[Producer]
  /\ myFirstFragmentForEnqueue = NULL
  /\ held[Producer] # NULL

\* ---- C9 ------------------------------------------------------------------
\* C9 as claimed: every dequeue with an empty fragment made while the dequeue
\* exchange slot is empty fails, whatever the size of the queue.
C9_EmptyDequeueAlwaysFails ==
  [][\A t \in Threads :
       (BodyStep(t, "dequeue") /\ arg[t] = NULL /\ myFirstFragmentForDequeue = NULL)
         => failed'[t]]_vars

\* C9 amended: a dequeue with an empty fragment made while the dequeue exchange
\* slot is empty fails exactly when size > 0; at size 0 it returns null without
\* failing.
C9_EmptyDequeueFailsUnlessUnderflow ==
  [][\A t \in Threads :
       (BodyStep(t, "dequeue") /\ arg[t] = NULL /\ myFirstFragmentForDequeue = NULL)
         => /\ failed'[t] <=> mySize > 0
            /\ ret'[t] = NULL
            /\ UNCHANGED queueVars]_vars

\* such a dequeue has failed on a non-empty queue
C9_Witness ==
  /\ AfterBody(Consumer, "dequeue")
  /\ arg[Consumer] = NULL
  /\ failed[Consumer]
  /\ mySize > 0
  /\ myFirstFragmentForDequeue = NULL

\* ---- C10 -----------------------------------------------------------------
\* C10: closeSink(f) fails exactly when the dequeue exchange slot is occupied
\* and f is non-empty; with the slot empty it stores f in the slot; with the
\* slot occupied and f empty it does nothing; size, head and the queue slots
\* never change.
C10_CloseSink ==
  [][\A t \in Threads :
       BodyStep(t, "closeSink")
         => /\ failed'[t] <=> (myFirstFragmentForDequeue # NULL /\ arg[t] # NULL)
            /\ myFirstFragmentForDequeue' =
                 IF myFirstFragmentForDequeue = NULL THEN arg[t]
                 ELSE myFirstFragmentForDequeue
            /\ UNCHANGED <<myFragmentQueue, mySize, myNextFragment,
                           myFirstFragmentForEnqueue>>]_vars

\* a closeSink with a non-empty fragment has failed on an occupied slot
C10_Witness ==
  /\ AfterBody(Consumer, "closeSink")
  /\ arg[Consumer] # NULL
  /\ failed[Consumer]
  /\ myFirstFragmentForDequeue # NULL
  /\ myFirstFragmentForDequeue # arg[Consumer]

\* C11: after a closeSink that put a fragment X into the dequeue exchange slot,
\* the slot holds X until a dequeue called without a fragment takes it out,
\* however many fragments the producer enqueues meanwhile; every closeSink
\* called with a fragment in between fails, and the slot still holds X after it.
C11_DoubleReturn ==
  [][/\ sinkFragment # NULL => myFirstFragmentForDequeue = sinkFragment
     /\ \A t \in Threads :
          (sinkFragment # NULL /\ BodyStep(t, "closeSink") /\ arg[t] # NULL) =>
            /\ failed'[t]
            /\ myFirstFragmentForDequeue' = sinkFragment
            /\ sinkFragment' = sinkFragment
     /\ (sinkFragment # NULL /\ sinkFragment' # sinkFragment) =>
          \E t \in Threads :
            BodyStep(t, "dequeue") /\ arg[t] = NULL /\ ret'[t] = myFragmentQueue[myNextFragment]
    ]_vars

\* a closeSink put X into the slot, the producer enqueued a fragment, and a
\* second closeSink with a fragment has just failed
C11_Witness ==
  /\ AfterBody(Consumer, "closeSink")
  /\ arg[Consumer] # NULL
  /\ failed[Consumer]
  /\ sinkFragment # NULL
  /\ sinkEnqueued
  /\ myFirstFragmentForDequeue = sinkFragment

\* C12: the mutex is owned exactly while its owner is between the construction
\* and the destruction of its lock_guard, whatever way the body ended; so a
\* thread waiting for the mutex is never stuck: the mutex is free, or its owner
\* can take its next step.
C12_LockReleased ==
  /\ myMutex # NoThread => pc[myMutex] \in {"body", "unlock"}
  /\ \A t \in Threads : pc[t] \in {"body", "unlock"} => myMutex = t
  /\ (\E t \in Threads : pc[t] = "lock") =>
       ENABLED (Lock \/ EnqueueBody \/ DequeueBody \/ CloseSinkBody
                  \/ SizeBody \/ Unlock)

\* the last call of the consumer failed and returned; the producer has taken
\* the mutex since and has run the body of an enqueue
C12_Witness ==
  /\ failed[Consumer]
  /\ pc[Consumer] = "idle"
  /\ AfterBody(Producer, "enqueue")
  /\ arg[Producer] # NULL
  /\ ~failed[Producer]
  /\ myMutex = Producer

\* C13: every write of queue state (size, head, queue slots, exchange slots,
\* the ignore-overflows flag) is made by the body of the thread that owns the
\* mutex, so nothing changes under a thread that is inside its own locked call.
C13_SingleLockGuardsAllWrites ==
  [][/\ <<queueVars, myIgnoreOverflows>>' # <<queueVars, myIgnoreOverflows>> =>
          \E t \in Threads : myMutex = t /\ pc[t] = "body" /\ pc'[t] = "unlock"
     /\ \A t \in Threads :
          (myMutex = t /\ pc'[t] = pc[t]) =>
            UNCHANGED <<queueVars, myIgnoreOverflows>>
    ]_vars

\* C14: no call waits for data or for space.  A call that owns the mutex
\* returns or fails, whatever the size of the queue; and a call that has
\* started returns or fails even if the other thread, from some point on,
\* never makes another call.
C14_CallsReturn ==
  \A t \in Threads :
    /\ (pc[t] \in {"body", "unlock"}) ~> (pc[t] = "idle")
    /\ (<>[](pc[Other(t)] = "idle")) => ((pc[t] # "idle") ~> (pc[t] = "idle"))

\* the consumer has called dequeue on an empty queue that the producer, idle,
\* will not fill any more
C14_Witness ==
  /\ pc[Consumer] = "lock"
  /\ op[Consumer] = "dequeue"
  /\ mySize = 0
  /\ pc[Producer] = "idle"
  /\ Len(enqLog) = MaxEnqueues

\* C15: what an enqueue writes and returns is the same whether overflow
\* notifications are suppressed or not (only the calls of the logger differ),
\* and a step that changes the flag changes nothing else; so two queues driven
\* by the same calls stay equal whatever ignoreOverflows calls are interleaved.
C15_FlagDoesNotChangeDrops ==
  [][/\ \A t \in Threads :
          (BodyStep(t, "enqueue") /\ arg[t] # NULL) =>
            LET suppressed == EnqueueExchange(myFragmentQueue, mySize, myNextFragment,
                                              arg[t], TRUE, capacity)
                notified == EnqueueExchange(myFragmentQueue, mySize, myNextFragment,
                                            arg[t], FALSE, capacity)
            IN
            /\ [suppressed EXCEPT !.logCalls = 0] = [notified EXCEPT !.logCalls = 0]
            /\ failed'[t] = suppressed.threw
            /\ ~suppressed.threw =>
                 /\ myFragmentQueue' = suppressed.queue
                 /\ mySize' = suppressed.size
                 /\ myNextFragment' = suppressed.next
                 /\ ret'[t] = suppressed.ret
            /\ suppressed.threw => UNCHANGED <<myFragmentQueue, mySize, myNextFragment>>
            /\ UNCHANGED <<myFirstFragmentForEnqueue, myFirstFragmentForDequeue>>
     /\ myIgnoreOverflows' # myIgnoreOverflows =>
          UNCHANGED <<ctorVars, asideVars, queueVars, myMutex, pc, op, arg, ret, failed,
                      logCalls, held, protocolOk, misuse, histVars, sinkVars>>
    ]_vars

\* an enqueue into a full queue has just dropped the oldest fragment without
\* a call of the logger
C15_Witness ==
  /\ AfterBody(Producer, "enqueue")
  /\ protocolOk
  /\ ret[Producer] # NULL
  /\ StampOf(ret[Producer]) \in dropped
  /\ logCalls = 0

\* C16: the body of an enqueue of a fragment that is not null, run while the
\* queue is full and notifications are not suppressed, calls the overflow
\* logger exactly once; every other body calls it not at all, and no other
\* step calls it.
C16_OverflowNotification ==
  [][/\ \A t \in Threads : \A o \in {"enqueue", "dequeue", "closeSink", "size"} :
          BodyStep(t, o) =>
            logCalls' = IF /\ o = "enqueue"
                           /\ arg[t] # NULL
                           /\ mySize = capacity
                           /\ ~myIgnoreOverflows
                        THEN 1 ELSE 0
     /\ (\A t \in Threads : pc[t] # "body" \/ pc'[t] = pc[t]) =>
          logCalls' = logCalls \/ logCalls' = 0
    ]_vars

\* an enqueue into a full queue has just called the logger
C16_Witness ==
  /\ AfterBody(Producer, "enqueue")
  /\ mySize = capacity
  /\ logCalls = 1

\* C17: the size is the number of fragments enqueued, less those dropped by
\* an overflow, less those handed out by dequeue; and the fragments enqueued
\* and neither dropped nor handed out are in the slots head .. head + size - 1
\* (modulo the capacity) and in no other slot.
C17_SizeAccounting ==
  protocolOk =>
    LET live == Range(enqLog) \ (Range(deqLog) \cup dropped) IN
    /\ mySize = Len(enqLog) - Cardinality(dropped) - Len(deqLog)
    /\ {i \in DOMAIN myFragmentQueue : StampOf(myFragmentQueue[i]) \in live}
         = {(myNextFragment + k) % capacity : k \in 0..(mySize - 1)}
    /\ Cardinality(live) = mySize

\* three enqueues into a fresh queue of three slots, then one dequeue: size 2
C17_Witness ==
  /\ protocolOk
  /\ capacity = 3
  /\ enqLog = <<1, 2, 3>>
  /\ deqLog = <<1>>
  /\ dropped = {}
  /\ mySize = 2
  /\ pc = [t \in Threads |-> "idle"]

\* ---- C18: the queue the constructor builds -------------------------------
\* length of a fragment, in samples
FragmentLength == SampleSize(myIsStereo) * myFragmentSize

C18_Layout ==
  /\ mySize = 0
  /\ myNextFragment = 0
  /\ DOMAIN myFragmentQueue = 0..(capacity - 1)
  /\ \A i \in 0..(capacity - 1) : myFragmentQueue[i] = FragmentAt(i)
  /\ myFirstFragmentForEnqueue = FragmentAt(capacity)
  /\ myFirstFragmentForDequeue = FragmentAt(capacity + 1)
  /\ myFirstFragmentForEnqueue # NULL
  /\ myFirstFragmentForDequeue # NULL

C18_Distinct ==
  \A i, j \in 0..(capacity + 1) :
    i # j =>
      \/ FragmentAt(i) + FragmentLength <= FragmentAt(j)
      \/ FragmentAt(j) + FragmentLength <= FragmentAt(i)

C19_EnqueueNotFull ==
  [][\A t \in Threads :
       (BodyStep(t, "enqueue") /\ arg[t] # NULL /\ mySize < capacity) =>
         LET i == (myNextFragment + mySize) % capacity IN
         /\ ~failed'[t]
         /\ DOMAIN myFragmentQueue' = DOMAIN myFragmentQueue
         /\ myFragmentQueue'[i] = arg[t]
         /\ ret'[t] = myFragmentQueue[i]
         /\ mySize' = mySize + 1
         /\ myNextFragment' = myNextFragment
         /\ \A j \in DOMAIN myFragmentQueue \ {i} :
              myFragmentQueue'[j] = myFragmentQueue[j]
         /\ UNCHANGED <<myFirstFragmentForEnqueue, myFirstFragmentForDequeue>>
         /\ protocolOk => ret'[t] \notin Range(Queued)
    ]_vars

\* an enqueue has just written the slot at the wrapped tail of a queue that
\* is still not full
C19_Witness ==
  /\ AfterBody(Producer, "enqueue")
  /\ arg[Producer] # NULL
  /\ protocolOk
  /\ mySize < capacity
  /\ myNextFragment + mySize - 1 >= capacity

\* C20: a dequeue from a queue that is not empty, given a fragment f, or given
\* none while the dequeue exchange slot is occupied (f is then the fragment of
\* the slot, and the slot becomes empty), returns the fragment of slot head,
\* writes f into slot head, takes one from the size and moves the head to
\* (head + 1) mod capacity; the other slots and the enqueue exchange slot are
\* left alone.
C20_DequeueNonEmpty ==
  [][\A t \in Threads :
       (/\ BodyStep(t, "dequeue")
        /\ mySize > 0
        /\ (arg[t] # NULL \/ myFirstFragmentForDequeue # NULL)) =>
         LET f == IF arg[t] # NULL THEN arg[t] ELSE myFirstFragmentForDequeue IN
         /\ ~failed'[t]
         /\ ret'[t] = myFragmentQueue[myNextFragment]
         /\ DOMAIN myFragmentQueue' = DOMAIN myFragmentQueue
         /\ myFragmentQueue'[myNextFragment] = f
         /\ arg[t] = NULL => myFirstFragmentForDequeue' = NULL
         /\ mySize' = mySize - 1
         /\ myNextFragment' = (myNextFragment + 1) % capacity
         /\ \A j \in DOMAIN myFragmentQueue \ {myNextFragment} :
              myFragmentQueue'[j] = myFragmentQueue[j]
         /\ UNCHANGED myFirstFragmentForEnqueue
    ]_vars

\* a dequeue called without a fragment has just put the fragment of the
\* dequeue exchange slot into the slot it emptied, the last of the queue
\* (the head wrapped to slot 0)
C20_Witness ==
  /\ AfterBody(Consumer, "dequeue")
  /\ arg[Consumer] = NULL
  /\ ret[Consumer] # NULL
  /\ myFirstFragmentForDequeue = NULL
  /\ capacity > 1
  /\ myNextFragment = 0
  /\ myFragmentQueue[capacity - 1] = FragmentAt(capacity + 1)

\* C21: for every capacity, an enqueue of a fragment that is not null computes
\* the tail index (head + size) mod capacity and compares the size with the
\* capacity itself; the 16-bit capacity it divides by is never zero.
C21_NarrowingIsHarmless ==
  [][enqLog' # enqLog =>
       /\ EnqueueCapacity(capacity) # 0
       /\ ~trapped'
       /\ tailIndex' = (myNextFragment + mySize) % capacity
       /\ mySize' = IF mySize < capacity THEN mySize + 1 ELSE mySize
       /\ myNextFragment' = IF mySize < capacity THEN myNextFragment
                             ELSE (myNextFragment + 1) % capacity
    ]_vars

\* C26: for a capacity of at least 1 the head is within 0 .. capacity - 1 and
\* so is the index every enqueue computes: no enqueue is cut short by a trap,
\* and no bounds-checked access throws.
C26_IndicesInRange ==
  capacity >= 1 =>
    /\ ~trapped
    /\ myNextFragment \in 0..(capacity - 1)
    /\ tailIndex \in 0..(capacity - 1)

\* ---- C22 -----------------------------------------------------------------
\* the calls that fail: enqueue without a fragment when the enqueue exchange
\* slot is empty, dequeue without a fragment from a queue that is not empty
\* when the dequeue exchange slot is empty, closeSink with a fragment when the
\* dequeue exchange slot is occupied
C22_Fails(t, o) ==
  \/ o = "enqueue" /\ arg[t] = NULL /\ myFirstFragmentForEnqueue = NULL
  \/ o = "dequeue" /\ arg[t] = NULL /\ mySize > 0 /\ myFirstFragmentForDequeue = NULL
  \/ o = "closeSink" /\ arg[t] # NULL /\ myFirstFragmentForDequeue # NULL

\* C22: a call fails in exactly those cases, and the body of a failing call
\* leaves size, head, every queue slot, both exchange slots and the
\* ignore-overflows flag as they were (and the mutex to be released, the
\* callers' fragments and the history too), so the calls that follow find
\* the queue as if the failed call had not been made.
C22_FailuresChangeNothing ==
  [][\A t \in Threads : \A o \in {"enqueue", "dequeue", "closeSink", "size"} :
       BodyStep(t, o) =>
         /\ failed'[t] = C22_Fails(t, o)
         /\ failed'[t] =>
              UNCHANGED <<ctorVars, queueVars, myIgnoreOverflows, myMutex, held,
                          histVars, sinkVars>>
    ]_vars

\* a closeSink has just failed on a full queue whose enqueue exchange slot is
\* empty and whose overflow notifications are on
C22_Witness ==
  /\ AfterBody(Consumer, "closeSink")
  /\ failed[Consumer]
  /\ mySize = capacity
  /\ myFirstFragmentForEnqueue = NULL
  /\ ~myIgnoreOverflows

\* C23: a fresh queue has overflow notifications suppressed; the flag changes
\* only by a call of ignoreOverflows, which changes nothing else; and an
\* enqueue that overflows calls the logger exactly when the flag is cleared.
\* So no overflow is logged before ignoreOverflows(false), and every overflow
\* is logged from then to the next ignoreOverflows(true).
C23_SuppressedUntilAsked ==
  /\ myIgnoreOverflows = TRUE
  /\ [][/\ myIgnoreOverflows' # myIgnoreOverflows =>
              UNCHANGED <<ctorVars, asideVars, queueVars, myMutex, pc, op, arg,
                          ret, failed, logCalls, held, protocolOk, misuse,
                          histVars, sinkVars>>
         /\ \A t \in Threads :
              (BodyStep(t, "enqueue") /\ arg[t] # NULL /\ mySize = capacity) =>
                logCalls' = IF myIgnoreOverflows THEN 0 ELSE 1
        ]_vars

\* the second overflow of a queue whose notifications are suppressed has just
\* dropped a fragment without a call of the logger
C23_Witness ==
  /\ AfterBody(Producer, "enqueue")
  /\ protocolOk
  /\ myIgnoreOverflows
  /\ ret[Producer] # NULL
  /\ StampOf(ret[Producer]) \in dropped
  /\ Cardinality(dropped) >= 2
  /\ logCalls = 0

\* C24: an enqueue without a fragment that finds the enqueue exchange slot
\* occupied returns its fragment and empties it; no step of any operation
\* makes an empty enqueue exchange slot occupied again; and an enqueue without
\* a fragment that finds the slot empty fails.
C24_EnqueueSlotNeverRefilled ==
  [][/\ myFirstFragmentForEnqueue = NULL => myFirstFragmentForEnqueue' = NULL
     /\ \A t \in Threads :
          (BodyStep(t, "enqueue") /\ arg[t] = NULL) =>
            IF myFirstFragmentForEnqueue = NULL THEN failed'[t]
            ELSE /\ ~failed'[t]
                 /\ ret'[t] = myFirstFragmentForEnqueue
                 /\ myFirstFragmentForEnqueue' = NULL
    ]_vars

\* after fragments were enqueued and a closeSink filled the dequeue exchange
\* slot, a second enqueue without a fragment has just failed
C24_Witness ==
  /\ AfterBody(Producer, "enqueue")
  /\ arg[Producer] = NULL
  /\ failed[Producer]
  /\ myFirstFragmentForEnqueue = NULL
  /\ Len(enqLog) >= 1
  /\ sinkFragment # NULL

\* C25: from every state with size > 0 and an empty dequeue exchange slot, and
\* for every non-null fragment X, closeSink(X) followed by dequeue(nullptr)
\* does not throw, returns the same fragment and leaves the same queue slots,
\* size, head and dequeue exchange slot as dequeue(X); neither path touches
\* the enqueue exchange slot, which is not part of either function's result.
C25_CloseSinkRoundTrip ==
  \A X \in AllFragments :
    (mySize > 0 /\ myFirstFragmentForDequeue = NULL) =>
      LET closed == CloseSinkFirstAfter(myFirstFragmentForDequeue, X)
          viaSink == DequeueExchange(myFragmentQueue, mySize, myNextFragment,
                                     closed, NULL, capacity)
          direct == DequeueExchange(myFragmentQueue, mySize, myNextFragment,
                                    myFirstFragmentForDequeue, X, capacity)
      IN /\ ~CloseSinkThrows(myFirstFragmentForDequeue, X)
         /\ ~direct.threw /\ ~direct.underflow
         /\ direct.ret = myFragmentQueue[myNextFragment]
         /\ direct.first = NULL
         /\ viaSink = direct

\* The consumer has dequeued with nullptr after handing its fragment back with
\* closeSink, and the queue again holds fragments behind an empty slot.
C25_Witness ==
  /\ AfterBody(Consumer, "dequeue")
  /\ arg[Consumer] = NULL /\ ret[Consumer] # NULL
  /\ protocolOk /\ Len(deqLog) >= 2
  /\ mySize > 0 /\ myFirstFragmentForDequeue = NULL

\* C27: once parseCommandLine has returned, every argument that starts with
\* '-' and has no value after it (it is the last argument, or the next
\* argument starts with '-' itself) is a key set to true in globalOpts or in
\* localOpts.
C27_ValuelessOptionsAreTrue ==
  mainPc \in {"check", "done"} =>
    \A j \in 1..(ac - 1) :
      (IsOption(av[j]) /\ (j = ac - 1 \/ IsOption(av[j + 1]))) =>
        LET key == Substr1(av[j]) IN
        \/ key \in DOMAIN globalOpts /\ globalOpts[key] = VariantTrue
        \/ key \in DOMAIN localOpts /\ localOpts[key] = VariantTrue

\* C28: after checkForCustomBaseDir, with 'baseinappdir' among the options
\* (with or without 'basedir') the only call made is overrideBaseDirWithApp;
\* with 'basedir' alone it is overrideBaseDir with the value of 'basedir';
\* with neither no override is called.
C28_CustomBaseDir ==
  mainPc = "done" =>
    /\ BaseInAppDir \in DOMAIN localOpts => overrides = <<OverrideWithApp>>
    /\ (BaseInAppDir \notin DOMAIN localOpts /\ BaseDir \in DOMAIN localOpts) =>
         overrides = <<Override(localOpts[BaseDir].text)>>
    /\ (BaseInAppDir \notin DOMAIN localOpts /\ BaseDir \notin DOMAIN localOpts) =>
         overrides = << >>

\* both options were given, basedir with a directory, and only the
\* application directory override was called
C28_Witness ==
  /\ mainPc = "done"
  /\ BaseInAppDir \in DOMAIN localOpts
  /\ BaseDir \in DOMAIN localOpts
  /\ localOpts[BaseDir] = VariantOfString(<<"dir">>)
  /\ overrides = <<OverrideWithApp>>

====
